---- MODULE Spec2Model ----
(***************************************************************************)
(* A model of neural_surface.cu: the training loop driver                  *)
(* (trainAndEvaluate), the two per-sample kernels (generate_face_positions *)
(* and generate_training_target) and the host-side builders of main (the   *)
(* face-area CDF and the vertex adjacency table).                          *)
(*                                                                         *)
(* main runs these one after the other; each specification below models    *)
(* one of them over its own variables and leaves the others untouched:     *)
(*   Spec         trainAndEvaluate                                         *)
(*   SpecAdj      the adjacency builder and its serialization              *)
(*   SpecCdf      the CDF builder, the uploads and the call of the loop    *)
(*   SpecSampler  one launch after another of generate_face_positions      *)
(*   SpecResolver one launch of generate_training_target                   *)
(*                                                                         *)
(* uint32_t is modelled as the integers modulo UintMod: TLC's integers are *)
(* 32 bits wide and signed, so 2^32 itself cannot be written.  0xFFFFFFFF  *)
(* is UintMod - 1 and the signed reading of a bit pattern is ToInt.        *)
(***************************************************************************)
EXTENDS Integers, Sequences, FiniteSets, TLC

\* ------------------------------------------------------------------ bounds
\* The modulus of the model's uint32_t arithmetic.
UintMod == 4096
\* The largest iteration count tried that does not wrap.
MaxIter == 3000
\* The number of samples (threads) of a kernel launch; batch_size in the code.
BatchSize == 2

\* The largest size of a mesh given to the adjacency builder: its number of
\* vertices plus its number of faces.
MaxMeshSize == 6
\* The largest number of faces of a mesh given to the kernels.
MaxFaces == 2
\* The bits of the significand of a float (24 in the program).
Precision == 2
\* The number of values, 0 apart, of a weight in a batch given to the Resolver.
NonZeroWeights == 2
\* The largest number of launches of the Sampler in a run.
MaxLaunches == 2

\* ------------------------------------------------------- program constants
N_INPUT_DIMS == 3
N_OUTPUT_DIMS == 6

VARIABLES
    \* trainAndEvaluate
    pc, training_iterations, n_training_steps, i, interval,
    print_loss, visualize_learned_func, writeEvalResult,
    tmp_loss, tmp_loss_counter, res, crs,
    \* what the run has done so far (history of the calls it made)
    ops, iterations, trained, printed, printed_loss, evaluated, exported,
    released,
    \* main: the mesh of shapes[0]
    n_vertices, n_faces, indices,
    \* main: the adjacency table and its serialization
    adjFaces, adjEdges, offsets_host, meta_host,
    \* main: the face-area CDF, the upload and the end of the process
    vertices, histogram, area_sum, c_prob, cdf_host, cdf, train_started,
    exit_code,
    \* the kernels: the threads of the launch in flight and its buffers
    tpc, launches, generator, training_batch_raw, training_target, reads,
    writes,
    \* the material data on the device
    materials, material_ids, texcoords

trainVars ==
    <<pc, training_iterations, n_training_steps, i, interval,
      print_loss, visualize_learned_func, writeEvalResult,
      tmp_loss, tmp_loss_counter, res, crs,
      ops, iterations, trained, printed, printed_loss, evaluated, exported,
      released>>

meshVars == <<n_vertices, n_faces, indices>>
adjVars == <<adjFaces, adjEdges, offsets_host, meta_host>>

cdfVars ==
    <<vertices, histogram, area_sum, c_prob, cdf_host, cdf, train_started,
      exit_code>>

kernelVars ==
    <<tpc, launches, generator, training_batch_raw, training_target, reads,
      writes>>
materialVars == <<materials, material_ids, texcoords>>

vars == <<trainVars, meshVars, adjVars, cdfVars, kernelVars, materialVars>>

\* What each part of the program leaves alone.
notTrain == <<meshVars, adjVars, cdfVars, kernelVars, materialVars>>
\* The kernels use pc, i, n_faces and indices of main, crs of the loop, and
\* their own variables.
notKernel ==
    <<training_iterations, n_training_steps, interval,
      print_loss, visualize_learned_func, writeEvalResult,
      tmp_loss, tmp_loss_counter, res,
      ops, iterations, trained, printed, printed_loss, evaluated, exported,
      released, adjVars, cdfVars, n_vertices>>
notCdf ==
    <<kernelVars, materialVars, training_iterations, n_training_steps, interval,
      print_loss, visualize_learned_func, writeEvalResult,
      tmp_loss, tmp_loss_counter, res, crs,
      ops, iterations, trained, printed, printed_loss, evaluated, exported,
      released, adjVars>>
notAdj ==
    <<cdfVars, kernelVars, materialVars, training_iterations, n_training_steps, interval,
      print_loss, visualize_learned_func, writeEvalResult,
      tmp_loss, tmp_loss_counter, res, crs,
      ops, iterations, trained, printed, printed_loss, evaluated, exported,
      released>>

\* ---------------------------------------------------------------- helpers
Min(a, b) == IF a < b THEN a ELSE b
Max(a, b) == IF a < b THEN b ELSE a

\* uint32_t addition.
UAdd(a, b) == (a + b) % UintMod
\* 0xFFFFFFFF.
UINT_MAX == UintMod - 1

Threads == 0 .. (BatchSize - 1)

\* A device buffer before its allocation, and after copy_from_host.
Unallocated == [allocated |-> FALSE, data |-> <<>>]
Uploaded(host) == [allocated |-> TRUE, data |-> host]

\* cudaStream_t training_stream = inference_stream: one stream for both.
inference_stream == "stream0"
training_stream == inference_stream

\* The quotient tmp_loss / (float)tmp_loss_counter.  tmp_loss is kept as the
\* set of the steps whose loss was added to it (each step adds at most one
\* term), so the quotient is known by its terms and its divisor.
Quotient(terms, n) == [sum |-> terms, n |-> n]

\* The variables of a part of the program that a specification does not run.
NoMesh ==
    /\ n_vertices = 0
    /\ n_faces = 0
    /\ indices = <<>>
AdjIdle ==
    /\ adjFaces = <<>>
    /\ adjEdges = <<>>
    /\ offsets_host = <<>>
    /\ meta_host = <<>>
KernelIdle ==
    /\ tpc = <<>>
    /\ launches = 0
    /\ generator = <<>>
    /\ training_batch_raw = <<>>
    /\ training_target = <<>>
    /\ reads = <<>>
    /\ writes = <<>>
NoMaterials ==
    /\ materials = <<>>
    /\ material_ids = <<>>
    /\ texcoords = <<>>
CdfIdle ==
    /\ vertices = <<>>
    /\ histogram = <<>>
    /\ area_sum = 0
    /\ c_prob = 0
    /\ cdf_host = <<>>
    /\ cdf = Unallocated
    /\ train_started = FALSE
    /\ exit_code = "running"
LoopIdle ==
    /\ training_iterations = 0
    /\ n_training_steps = 0
    /\ interval = 10
    /\ print_loss = FALSE
    /\ visualize_learned_func = FALSE
    /\ writeEvalResult = FALSE
    /\ tmp_loss = {}
    /\ tmp_loss_counter = 0
    /\ res = [MSE |-> "uninit", n_floats |-> "uninit", EvalTime |-> "uninit"]
    /\ ops = <<>>
    /\ iterations = 0
    /\ trained = 0
    /\ printed = {}
    /\ printed_loss = "none"
    /\ evaluated = <<>>
    /\ exported = 0
    /\ released = FALSE
TrainIdle ==
    /\ LoopIdle
    /\ crs = [t \in Threads |-> "unallocated"]

\* ======================================================= trainAndEvaluate
\* The iteration counts tried: around every change of the logging interval,
\* a long run, and the largest uint32_t.
IterationChoices ==
    {0, 1, 2, 9, 10, 11, 12, 20, 99, 100, 101, 110, 200, 999, 1000, 1001,
     1100, 2000, MaxIter, UINT_MAX}

TrainInit ==
    /\ pc = "setup"
    /\ training_iterations \in IterationChoices
    /\ n_training_steps = 0
    /\ i = 0
    /\ interval = 10
    /\ print_loss = FALSE
    /\ visualize_learned_func = FALSE
    /\ writeEvalResult = FALSE
    /\ tmp_loss = {}
    /\ tmp_loss_counter = 0
    /\ res = [MSE |-> "uninit", n_floats |-> "uninit", EvalTime |-> "uninit"]
    /\ crs = [t \in Threads |-> "unallocated"]
    /\ ops = <<>>
    /\ iterations = 0
    /\ trained = 0
    /\ printed = {}
    /\ printed_loss = "none"
    /\ evaluated = <<>>
    /\ exported = 0
    /\ released = FALSE

\* setup_kernel: curand_init(1337, idx, 0, &state[idx]) for every thread.
setup_kernel(state) ==
    [t \in Threads |-> [seed |-> 1337, stream |-> t, offset |-> 0, drawn |-> 0]]

\* Lines 340-384: the constants, the stream, the buffers, the trainer, the
\* random states and the first logging interval.
Setup ==
    /\ pc = "setup"
    /\ n_training_steps' = UAdd(training_iterations, 1)
    /\ tmp_loss' = {}
    /\ tmp_loss_counter' = 0
    /\ crs' = setup_kernel(crs)
    /\ interval' = 10
    /\ i' = 0
    /\ pc' = "loop"
    /\ UNCHANGED notTrain
    /\ UNCHANGED <<training_iterations, print_loss, visualize_learned_func,
                   writeEvalResult, res, ops, iterations, trained, printed,
                   printed_loss, evaluated, exported, released>>

\* bool print_loss = i % interval == 0;
PrintLossAt(step, ival) == step % ival = 0
\* i == (n_training_steps - 1), both uint32_t.
IsLastStep(step, n) == step = (n - 1) % UintMod

\* Line 386-389: the loop test and the three flags of the iteration.
LoopHead ==
    /\ pc = "loop"
    /\ i < n_training_steps
    /\ print_loss' = PrintLossAt(i, interval)
    /\ visualize_learned_func' = IsLastStep(i, n_training_steps)
    /\ writeEvalResult' = IsLastStep(i, n_training_steps)
    /\ ops' = <<>>
    /\ pc' = "sample"
    /\ UNCHANGED notTrain
    /\ UNCHANGED <<training_iterations, n_training_steps, i, interval,
                   tmp_loss, tmp_loss_counter, res, crs, iterations, trained,
                   printed, printed_loss, evaluated, exported, released>>

\* A launch of generate_face_positions draws three numbers in every thread.
DrawThree(state) ==
    [t \in Threads |-> [state[t] EXCEPT !.drawn = @ + 3]]

\* Line 397: the Sampler, enqueued on training_stream.
GenerateFacePositions ==
    /\ pc = "sample"
    /\ crs' = DrawThree(crs)
    /\ ops' = Append(ops, [op |-> "generate_face_positions",
                           stream |-> training_stream])
    /\ pc' = "resolve"
    /\ UNCHANGED notTrain
    /\ UNCHANGED <<training_iterations, n_training_steps, i, interval,
                   print_loss, visualize_learned_func, writeEvalResult,
                   tmp_loss, tmp_loss_counter, res, iterations, trained,
                   printed, printed_loss, evaluated, exported, released>>

\* Line 400: the Resolver, enqueued on training_stream.
GenerateTrainingTarget ==
    /\ pc = "resolve"
    /\ ops' = Append(ops, [op |-> "generate_training_target",
                           stream |-> training_stream])
    /\ pc' = "train"
    /\ UNCHANGED notTrain
    /\ UNCHANGED <<training_iterations, n_training_steps, i, interval,
                   print_loss, visualize_learned_func, writeEvalResult,
                   tmp_loss, tmp_loss_counter, res, crs, iterations, trained,
                   printed, printed_loss, evaluated, exported, released>>

\* Line 407: model->training_step(training_stream, ...), the one call that
\* changes the trainer.
TrainingStep ==
    /\ pc = "train"
    /\ trained' = trained + 1
    /\ ops' = Append(ops, [op |-> "training_step", stream |-> training_stream])
    /\ pc' = "loss"
    /\ UNCHANGED notTrain
    /\ UNCHANGED <<training_iterations, n_training_steps, i, interval,
                   print_loss, visualize_learned_func, writeEvalResult,
                   tmp_loss, tmp_loss_counter, res, crs, iterations,
                   printed, printed_loss, evaluated, exported, released>>

\* The sampling test without its min: a loss only every `interval` steps.
SampleLossEveryInterval(step, ival) == step % ival = 0

\* if (i % std::min(interval, (uint32_t)100) == 0)
SampleLossAt(step, ival) == step % Min(ival, 100) = 0

\* Lines 409-412: the loss of this step is added to tmp_loss.
AccumulateLoss ==
    /\ pc = "loss"
    /\ IF SampleLossAt(i, interval)
       THEN /\ tmp_loss' = tmp_loss \cup {i}
            /\ tmp_loss_counter' = UAdd(tmp_loss_counter, 1)
       ELSE UNCHANGED <<tmp_loss, tmp_loss_counter>>
    /\ pc' = "result"
    /\ UNCHANGED notTrain
    /\ UNCHANGED <<training_iterations, n_training_steps, i, interval,
                   print_loss, visualize_learned_func, writeEvalResult,
                   res, crs, ops, iterations, trained,
                   printed, printed_loss, evaluated, exported, released>>

\* Lines 418-421: the result's MSE and parameter count.
WriteEvalResult ==
    /\ pc = "result"
    /\ IF writeEvalResult
       THEN res' = [res EXCEPT !.MSE = Quotient(tmp_loss, tmp_loss_counter),
                               !.n_floats = "n_params"]
       ELSE UNCHANGED res
    /\ pc' = "print"
    /\ UNCHANGED notTrain
    /\ UNCHANGED <<training_iterations, n_training_steps, i, interval,
                   print_loss, visualize_learned_func, writeEvalResult,
                   tmp_loss, tmp_loss_counter, crs, ops, iterations, trained,
                   printed, printed_loss, evaluated, exported, released>>

\* Lines 423-429: the loss is printed and the accumulator reset.
PrintLoss ==
    /\ pc = "print"
    /\ IF print_loss
       THEN /\ printed' = printed \cup {i}
            /\ printed_loss' = Quotient(tmp_loss, tmp_loss_counter)
            /\ tmp_loss' = {}
            /\ tmp_loss_counter' = 0
       ELSE UNCHANGED <<printed, printed_loss, tmp_loss, tmp_loss_counter>>
    /\ pc' = "visualize"
    /\ UNCHANGED notTrain
    /\ UNCHANGED <<training_iterations, n_training_steps, i, interval,
                   print_loss, visualize_learned_func, writeEvalResult,
                   res, crs, ops, iterations, trained,
                   evaluated, exported, released>>

\* Lines 431-451: inference over the evaluation grid on inference_stream and
\* save_images, which writes one image per channel group.
Visualize ==
    /\ pc = "visualize"
    /\ IF visualize_learned_func
       THEN /\ evaluated' = Append(evaluated,
                                   [step |-> i, trained |-> trained,
                                    stream |-> inference_stream])
            /\ res' = [res EXCEPT !.EvalTime = "evalTime"]
            /\ exported' = exported + (N_OUTPUT_DIMS \div 3)
       ELSE UNCHANGED <<evaluated, res, exported>>
    /\ pc' = "grow"
    /\ UNCHANGED notTrain
    /\ UNCHANGED <<training_iterations, n_training_steps, i, interval,
                   print_loss, visualize_learned_func, writeEvalResult,
                   tmp_loss, tmp_loss_counter, crs, ops, iterations, trained,
                   printed, printed_loss, released>>

\* The growth without its i > 0: the print at step 0 grows the interval too.
GrowIntervalAtZero(ival, step, prints) ==
    IF prints /\ ival < 1000 THEN (ival * 10) % UintMod ELSE ival

\* if (print_loss && i > 0 && interval < 1000) interval *= 10;
GrowInterval(ival, step, prints) ==
    IF prints /\ step > 0 /\ ival < 1000 THEN (ival * 10) % UintMod ELSE ival

\* Lines 454-457: the interval grows and the loop's ++i.
NextIteration ==
    /\ pc = "grow"
    /\ interval' = GrowInterval(interval, i, print_loss)
    /\ i' = UAdd(i, 1)
    /\ iterations' = iterations + 1
    /\ pc' = "loop"
    /\ UNCHANGED notTrain
    /\ UNCHANGED <<training_iterations, n_training_steps,
                   print_loss, visualize_learned_func, writeEvalResult,
                   tmp_loss, tmp_loss_counter, res, crs, ops, trained,
                   printed, printed_loss, evaluated, exported, released>>

\* Lines 459-464: the loop is over; crs and the arenas are freed and res is
\* returned.
Return ==
    /\ pc = "loop"
    /\ ~(i < n_training_steps)
    /\ released' = TRUE
    /\ crs' = [t \in Threads |-> "freed"]
    /\ pc' = "done"
    /\ UNCHANGED notTrain
    /\ UNCHANGED <<training_iterations, n_training_steps, i, interval,
                   print_loss, visualize_learned_func, writeEvalResult,
                   tmp_loss, tmp_loss_counter, res, ops, iterations, trained,
                   printed, printed_loss, evaluated, exported>>

\* Lines 466-469: an exception of a CUDA call or of the trainer is caught,
\* logged, and the process exits with status 1.
Abort ==
    /\ pc \notin {"done", "exit1"}
    /\ pc' = "exit1"
    /\ UNCHANGED notTrain
    /\ UNCHANGED <<training_iterations, n_training_steps, i, interval,
                   print_loss, visualize_learned_func, writeEvalResult,
                   tmp_loss, tmp_loss_counter, res, crs, ops, iterations,
                   trained, printed, printed_loss, evaluated, exported,
                   released>>

TrainNext ==
    \/ Setup
    \/ LoopHead
    \/ GenerateFacePositions
    \/ GenerateTrainingTarget
    \/ TrainingStep
    \/ AccumulateLoss
    \/ WriteEvalResult
    \/ PrintLoss
    \/ Visualize
    \/ NextIteration
    \/ Return
    \/ Abort


\* ===================================================== main: adjacency
\* The vertex triples of a triangle over `nv` vertices.
Triangles(nv) ==
    {t \in (0 .. (nv - 1)) \X (0 .. (nv - 1)) \X (0 .. (nv - 1)) :
        t[1] # t[2] /\ t[1] # t[3] /\ t[2] # t[3]}

\* mesh.indices: three tinyobj::index_t per face.
IndicesOf(faces) ==
    [k \in 1 .. (3 * Len(faces)) |->
        [vertex_index |-> faces[((k - 1) \div 3) + 1][((k - 1) % 3) + 1],
         texcoord_index |-> faces[((k - 1) \div 3) + 1][((k - 1) % 3) + 1]]]

\* The state of main after the mesh is loaded (lines 556-562) and the
\* containers of the adjacency builder are constructed (lines 595-599).
AdjInit ==
    /\ pc = "faces"
    /\ i = 0
    /\ n_vertices \in 1 .. MaxMeshSize
    /\ n_faces \in 0 .. (MaxMeshSize - n_vertices)
    /\ \E faces \in [1 .. n_faces -> Triangles(n_vertices)] :
           indices = IndicesOf(faces)
    /\ adjFaces = [v \in 0 .. (n_vertices - 1) |-> <<>>]
    /\ adjEdges = [v \in 0 .. (n_vertices - 1) |-> <<>>]
    /\ offsets_host = [k \in 1 .. (2 * n_vertices) |-> 0]
    /\ meta_host = <<>>

\* mesh.indices[3 * face + corner].vertex_index
VertexIndex(face, corner) == indices[3 * face + corner + 1].vertex_index

\* std::find(list.begin(), list.end(), value): the first position holding
\* the value (from 1), 0 for list.end().
Find(list, value) ==
    IF \E k \in 1 .. Len(list) : list[k] = value
    THEN CHOOSE k \in 1 .. Len(list) :
             /\ list[k] = value
             /\ \A j \in 1 .. (k - 1) : list[j] # value
    ELSE 0

\* The update with ind = distance + 1: the first face slot is overwritten.
EdgeInsertFirstSlot(list, vmax, face_code) ==
    LET it == Find(list, vmax)
    IN  IF it = 0
        THEN list \o <<vmax, face_code, UINT_MAX>>
        ELSE [list EXCEPT ![it + 1] = face_code]

\* Lines 617-627: the record of the edge in the list of its smaller vertex:
\* appended as (vmax, face, 0xFFFFFFFF) when vmax is not found, else the
\* slot two after the found position is overwritten.
EdgeInsert(list, vmax, face_code) ==
    LET it == Find(list, vmax)
    IN  IF it = 0
        THEN list \o <<vmax, face_code, UINT_MAX>>
        ELSE [list EXCEPT ![it + 2] = face_code]

\* The edge stored under its first vertex as given, not under the smaller.
AddEdgeAsGiven(edges, a, b, face_code) ==
    [edges EXCEPT ![a] = EdgeInsert(@, b, face_code)]

\* Lines 612-627 for one edge (a, b) of face `face_code - n_vertices`.
AddEdge(edges, a, b, face_code) ==
    LET vmin == Min(a, b)
        vmax == Max(a, b)
    IN  [edges EXCEPT ![vmin] = EdgeInsert(@, vmax, face_code)]

\* Lines 601-661: one iteration of the loop over the faces.
ProcessFace ==
    /\ pc = "faces"
    /\ i < n_faces
    /\ LET v0 == VertexIndex(i, 0)
           v1 == VertexIndex(i, 1)
           v2 == VertexIndex(i, 2)
           code == UAdd(n_vertices, i)
           f0 == [adjFaces EXCEPT ![v0] = Append(@, i)]
           f1 == [f0 EXCEPT ![v1] = Append(@, i)]
           f2 == [f1 EXCEPT ![v2] = Append(@, i)]
           e01 == AddEdge(adjEdges, v0, v1, code)
           e02 == AddEdge(e01, v0, v2, code)
           e12 == AddEdge(e02, v1, v2, code)
       IN  /\ adjFaces' = f2
           /\ adjEdges' = e12
    /\ i' = i + 1
    /\ UNCHANGED <<pc, meshVars, offsets_host, meta_host>>
    /\ UNCHANGED notAdj

\* The loop over the faces is over.
FacesDone ==
    /\ pc = "faces"
    /\ ~(i < n_faces)
    /\ pc' = "serialize_faces"
    /\ UNCHANGED <<i, meshVars, adjVars>>
    /\ UNCHANGED notAdj

\* One of the two serialization loops, from vertex v on: the offset of the
\* vertex is the size of meta, then the length and the entries are pushed.
RECURSIVE Serialize(_, _, _, _, _)
Serialize(lists, base, v, meta, offsets) ==
    IF ~(v < n_vertices)
    THEN [meta |-> meta, offsets |-> offsets]
    ELSE Serialize(lists, base, v + 1,
                   meta \o <<Len(lists[v])>> \o lists[v],
                   [offsets EXCEPT ![base + v + 1] = Len(meta)])

\* Lines 663-667: the face lists.
SerializeFaces ==
    /\ pc = "serialize_faces"
    /\ LET out == Serialize(adjFaces, 0, 0, meta_host, offsets_host)
       IN  /\ meta_host' = out.meta
           /\ offsets_host' = out.offsets
    /\ pc' = "serialize_edges"
    /\ UNCHANGED <<i, meshVars, adjFaces, adjEdges>>
    /\ UNCHANGED notAdj

\* Lines 669-673: the edge lists.
SerializeEdges ==
    /\ pc = "serialize_edges"
    /\ LET out == Serialize(adjEdges, n_vertices, 0, meta_host, offsets_host)
       IN  /\ meta_host' = out.meta
           /\ offsets_host' = out.offsets
    /\ pc' = "adjacency_built"
    /\ UNCHANGED <<i, meshVars, adjFaces, adjEdges>>
    /\ UNCHANGED notAdj

AdjNext ==
    \/ ProcessFace
    \/ FacesDone
    \/ SerializeFaces
    \/ SerializeEdges

InitAdj == AdjInit /\ TrainIdle /\ CdfIdle /\ KernelIdle /\ NoMaterials
SpecAdj == InitAdj /\ [][AdjNext]_vars

\* The vertex triples of a face over `nv` vertices, a vertex repeated or not.
AnyTriples(nv) == (0 .. (nv - 1)) \X (0 .. (nv - 1)) \X (0 .. (nv - 1))

\* The state of main at line 599 for any mesh tinyobj can load, the meshes
\* with a face that names a vertex twice included.
AnyMeshInit ==
    /\ pc = "faces"
    /\ i = 0
    /\ n_vertices \in 1 .. MaxMeshSize
    /\ n_faces \in 0 .. (MaxMeshSize - n_vertices)
    /\ \E faces \in [1 .. n_faces -> AnyTriples(n_vertices)] :
           indices = IndicesOf(faces)
    /\ adjFaces = [v \in 0 .. (n_vertices - 1) |-> <<>>]
    /\ adjEdges = [v \in 0 .. (n_vertices - 1) |-> <<>>]
    /\ offsets_host = [k \in 1 .. (2 * n_vertices) |-> 0]
    /\ meta_host = <<>>

InitAnyMesh ==
    AnyMeshInit /\ TrainIdle /\ CdfIdle /\ KernelIdle /\ NoMaterials
SpecAnyMesh == InitAnyMesh /\ [][AdjNext]_vars



\* ================================================ main: face-area CDF
\* A float that is a quotient of two integers, in lowest terms; the results
\* of a division by zero are NaN (0/0) and inf (1/0).
RECURSIVE Gcd(_, _)
Gcd(a, b) == IF b = 0 THEN a ELSE Gcd(b, a % b)
Rational(num, den) ==
    [num |-> num \div Gcd(num, den), den |-> den \div Gcd(num, den)]
NaN == [num |-> 0, den |-> 0]
inf == [num |-> 1, den |-> 0]
\* a / b on floats that hold the integers a, b >= 0.
FDiv(a, b) ==
    IF b = 0 THEN (IF a = 0 THEN NaN ELSE inf) ELSE Rational(a, b)
\* x + y on floats that are not negative.
FAdd(x, y) ==
    IF x = NaN \/ y = NaN THEN NaN
    ELSE IF x = inf \/ y = inf THEN inf
    ELSE Rational(x.num * y.den + y.num * x.den, x.den * y.den)

\* attrib.vertices: the positions of four vertices, the first three on one
\* line.
VertexTable == << <<0, 0, 0>>, <<1, 0, 0>>, <<2, 0, 0>>, <<0, 1, 0>> >>
\* The vertex triples of a face over `nv` vertices, repeated vertices
\* allowed, in ascending order (the area does not depend on the order).
SortedTriples(nv) ==
    {t \in (0 .. (nv - 1)) \X (0 .. (nv - 1)) \X (0 .. (nv - 1)) :
        t[1] <= t[2] /\ t[2] <= t[3]}

\* main as it starts: the command line and the files are the inputs.
CdfInit ==
    /\ pc = "args"
    /\ i = 0
    /\ n_vertices = Len(VertexTable)
    /\ n_faces \in 0 .. MaxFaces
    /\ \E faces \in [1 .. n_faces -> SortedTriples(n_vertices)] :
           indices = IndicesOf(faces)
    /\ vertices = VertexTable
    /\ histogram = [k \in 1 .. n_faces |-> 0]
    /\ area_sum = 0
    /\ c_prob = Rational(0, 1)
    /\ cdf_host = [k \in 1 .. n_faces |-> Rational(0, 1)]
    /\ cdf = Unallocated
    /\ train_started = FALSE
    /\ exit_code = "running"

\* Lines 513-516: a wrong number of arguments is a usage error, exit(1).
CheckArgs ==
    /\ pc = "args"
    /\ \E argc_ok \in BOOLEAN :
           IF argc_ok
           THEN pc' = "load_obj" /\ UNCHANGED exit_code
           ELSE pc' = "exit" /\ exit_code' = "1"
    /\ UNCHANGED <<i, meshVars, vertices, histogram, area_sum, c_prob,
                   cdf_host, cdf, train_started>>
    /\ UNCHANGED notCdf

\* Lines 541-562: tinyobj::LoadObj; a failure is reported and exit(1).
LoadObj ==
    /\ pc = "load_obj"
    /\ \E ret \in BOOLEAN :
           IF ret
           THEN pc' = "histogram" /\ UNCHANGED exit_code
           ELSE pc' = "exit" /\ exit_code' = "1"
    /\ UNCHANGED <<i, meshVars, vertices, histogram, area_sum, c_prob,
                   cdf_host, cdf, train_started>>
    /\ UNCHANGED notCdf

Sub(a, b) == <<a[1] - b[1], a[2] - b[2], a[3] - b[3]>>
cross(a, b) ==
    <<a[2] * b[3] - a[3] * b[2],
      a[3] * b[1] - a[1] * b[3],
      a[1] * b[2] - a[2] * b[1]>>
\* length(v): the root of v.v; exact, the vertices being on a plane of the
\* integer grid.
length(v) ==
    LET sq == v[1] * v[1] + v[2] * v[2] + v[3] * v[3]
    IN  CHOOSE r \in 0 .. sq : r * r = sq
\* Lines 569-581: 0.5f * length(cross(v2 - v1, v3 - v1)).  Areas are kept
\* in halves, so that they are integers: the value is 2 * area.
FaceArea(face) ==
    LET v1 == vertices[VertexIndex(face, 0) + 1]
        v2 == vertices[VertexIndex(face, 1) + 1]
        v3 == vertices[VertexIndex(face, 2) + 1]
    IN  length(cross(Sub(v2, v1), Sub(v3, v1)))

\* Lines 568-584: one iteration of the histogram loop.
HistogramEntry ==
    /\ pc = "histogram"
    /\ i < n_faces
    /\ histogram' = [histogram EXCEPT ![i + 1] = FaceArea(i)]
    /\ area_sum' = area_sum + FaceArea(i)
    /\ i' = i + 1
    /\ UNCHANGED <<pc, meshVars, vertices, c_prob, cdf_host, cdf,
                   train_started, exit_code>>
    /\ UNCHANGED notCdf

HistogramDone ==
    /\ pc = "histogram"
    /\ ~(i < n_faces)
    /\ pc' = "cdf"
    /\ i' = 0
    /\ UNCHANGED <<meshVars, cdfVars>>
    /\ UNCHANGED notCdf

\* Lines 589-592: one iteration of the CDF loop.
CdfEntry ==
    /\ pc = "cdf"
    /\ i < n_faces
    /\ c_prob' = FAdd(c_prob, FDiv(histogram[i + 1], area_sum))
    /\ cdf_host' = [cdf_host EXCEPT ![i + 1] = c_prob']
    /\ i' = i + 1
    /\ UNCHANGED <<pc, meshVars, vertices, histogram, area_sum, cdf,
                   train_started, exit_code>>
    /\ UNCHANGED notCdf

\* Lines 594-686: the CDF loop is over; the adjacency table is built (it
\* reads and writes nothing of the CDF) and the vertices, texcoords, CDF and
\* indices are copied to the device.
UploadMesh ==
    /\ pc = "cdf"
    /\ ~(i < n_faces)
    /\ cdf' = Uploaded(cdf_host)
    /\ pc' = "test_input"
    /\ UNCHANGED <<i, meshVars, vertices, histogram, area_sum, c_prob,
                   cdf_host, train_started, exit_code>>
    /\ UNCHANGED notCdf

\* Lines 692-776: the materials are loaded (a missing texture is not an
\* error), then the evaluation grid, whose file may fail to open or to be
\* read (return 1), and the reference images are written.
LoadTestInput ==
    /\ pc = "test_input"
    /\ \E file_ok \in BOOLEAN :
           IF file_ok
           THEN pc' = "train" /\ UNCHANGED exit_code
           ELSE pc' = "exit" /\ exit_code' = "1"
    /\ UNCHANGED <<i, meshVars, vertices, histogram, area_sum, c_prob,
                   cdf_host, cdf, train_started>>
    /\ UNCHANGED notCdf

\* Lines 826-833: trainAndEvaluate(..., &cdf, ..., 5000, "neural.png"),
\* which ends the process with exit(1) when it catches an exception, and
\* return EXIT_SUCCESS.
CallTrainAndEvaluate ==
    /\ pc = "train"
    /\ train_started' = TRUE
    /\ \E thrown \in BOOLEAN : exit_code' = IF thrown THEN "1" ELSE "0"
    /\ pc' = "exit"
    /\ UNCHANGED <<i, meshVars, vertices, histogram, area_sum, c_prob,
                   cdf_host, cdf>>
    /\ UNCHANGED notCdf

CdfNext ==
    \/ CheckArgs
    \/ LoadObj
    \/ HistogramEntry
    \/ HistogramDone
    \/ CdfEntry
    \/ UploadMesh
    \/ LoadTestInput
    \/ CallTrainAndEvaluate

InitCdf == CdfInit /\ AdjIdle /\ TrainIdle /\ KernelIdle /\ NoMaterials
SpecCdf == InitCdf /\ [][CdfNext]_vars

\* ============================================ generate_face_positions
\* linear_kernel rounds the grid up to whole blocks: the launch has at least
\* one thread whose idx is not below n_elements.
GridThreads == 0 .. BatchSize

\* ------------------------------------------------------------- float
\* A float of the kernels is a number of units of 1 / FloatDen with a
\* significand of Precision bits; the arithmetic rounds to the nearest float,
\* ties to the even significand, as the device does.
FloatDen == 2 ^ (2 * Precision + 2)
FloatValues ==
    {m * (2 ^ e) : m \in 0 .. ((2 ^ Precision) - 1),
                   e \in 0 .. (3 * Precision + 2)}

RECURSIVE Significand(_)
Significand(f) == IF f < 2 ^ Precision THEN f ELSE Significand(f \div 2)

\* The float nearest to num / den units.
Nearest(lo, hi, below, tie) ==
    IF lo = hi THEN lo
    ELSE IF below THEN lo
    ELSE IF tie THEN (IF Significand(lo) % 2 = 0 THEN lo ELSE hi)
    ELSE hi
RoundToFloat(num, den) ==
    LET lo == CHOOSE f \in FloatValues :
                  /\ f * den <= num
                  /\ \A g \in FloatValues : g * den <= num => g <= f
        hi == CHOOSE f \in FloatValues :
                  /\ f * den >= num
                  /\ \A g \in FloatValues : g * den >= num => g >= f
    IN  Nearest(lo, hi, 2 * num < (lo + hi) * den, 2 * num = (lo + hi) * den)

\* The floats of [0, 1].
UnitFloats == {f \in FloatValues : f <= FloatDen}

\* 1.0f - x and x * y on the floats of [0, 1].
OneMinusOf == [x \in UnitFloats |-> RoundToFloat(FloatDen - x, 1)]
OneMinus(x) == OneMinusOf[x]
TimesOf == [x \in UnitFloats, y \in UnitFloats |-> RoundToFloat(x * y, FloatDen)]
Times(x, y) == TimesOf[x, y]
\* fmodf(x, 1.0f) of x >= 0: exact.
fmodf(x) == x % FloatDen
\* sqrt(x): the float nearest to the root of x / FloatDen.
SqrtOf ==
    [x \in UnitFloats |->
        LET lo == CHOOSE f \in UnitFloats :
                      /\ f * f <= x * FloatDen
                      /\ \A g \in UnitFloats :
                             g * g <= x * FloatDen => g <= f
            hi == CHOOSE f \in UnitFloats :
                      /\ f * f >= x * FloatDen
                      /\ \A g \in UnitFloats :
                             g * g >= x * FloatDen => g >= f
        IN  Nearest(lo, hi, 4 * x * FloatDen < (lo + hi) * (lo + hi),
                    4 * x * FloatDen = (lo + hi) * (lo + hi))]
sqrt(x) == SqrtOf[x]

\* ------------------------------------------------------------ curand
\* curand_uniform returns a float in (0, 1].
UniformDraws == {f \in FloatValues : 0 < f /\ f <= FloatDen}

\* The generator is a function of the seed, the subsequence and the position
\* in it.  The model takes it from a family: the draws of thread t in
\* iteration k are the floats k + t places after, and k + 2 * t places after,
\* two floats a and b.
After ==
    [f \in UniformDraws |->
        IF f = FloatDen
        THEN CHOOSE g \in UniformDraws : \A h \in UniformDraws : g <= h
        ELSE CHOOSE g \in UniformDraws :
                 g > f /\ \A h \in UniformDraws : h > f => g <= h]
RECURSIVE Places(_, _)
Places(f, k) == IF k = 0 THEN f ELSE Places(After[f], k - 1)
Generator(a, b) ==
    [t \in Threads |->
        [j \in 0 .. (3 * MaxLaunches - 1) |->
            IF j % 3 = 0 THEN Places(b, (j \div 3) + t + 1)
            ELSE IF j % 3 = 1 THEN Places(a, (j \div 3) + t)
            ELSE Places(b, (j \div 3) + 2 * t)]]

\* A generator seeded anew before every launch: the draws start over.
curand_uniform_reseeded(idx, k) == generator[idx][k]
\* curand_uniform(&crs[idx]): the value drawn, k draws after the present one.
curand_uniform(idx, k) == generator[idx][crs[idx].drawn + k]

\* ------------------------------------------------------------ kernel
\* Lines 191 and 205: r = fmodf(curand_uniform, 1.0f);
\* faceId = (uint32_t)(r * n_faces).
SampledFace(u, nf) ==
    (RoundToFloat(fmodf(u) * nf, 1) \div FloatDen) % UintMod

\* Lines 213-214: 1.0f - sqrt(r1) and sqrt(r1) * (1.0f - r2).
Barycentric(r1, r2) ==
    << OneMinus(sqrt(r1)), Times(sqrt(r1), OneMinus(r2)) >>

\* A slot of training_batch_raw: the bits of the face id and two weights.
SurfacePoint(faceId, w) == [face |-> faceId, w1 |-> w[1], w2 |-> w[2]]
\* GPUMatrix<float> training_batch_raw(N_INPUT_DIMS, batch_size): allocated,
\* not written.
Unwritten == SurfacePoint(0, <<0, 0>>)

NoAccess == [t \in GridThreads |-> {}]

\* trainAndEvaluate at line 380, for a mesh of n_faces faces.
SamplerInit ==
    /\ pc = "seed"
    /\ i = 0
    /\ n_vertices = 0
    /\ n_faces \in 0 .. MaxFaces
    /\ indices = <<>>
    /\ crs = [t \in Threads |-> "unallocated"]
    /\ \E a \in UniformDraws, b \in UniformDraws : generator = Generator(a, b)
    /\ tpc = [t \in GridThreads |-> "idle"]
    /\ launches = 0
    /\ training_batch_raw = [t \in Threads |-> Unwritten]
    /\ training_target = <<>>
    /\ reads = NoAccess
    /\ writes = NoAccess

\* Line 382: linear_kernel(setup_kernel, 0, training_stream, batch_size, crs).
LaunchSetupKernel ==
    /\ pc = "seed"
    /\ crs' = setup_kernel(crs)
    /\ pc' = "launch"
    /\ UNCHANGED <<i, meshVars, generator, tpc, launches, training_batch_raw,
                   training_target, reads, writes, materialVars>>
    /\ UNCHANGED notKernel

\* Line 397: linear_kernel(generate_face_positions, ..., batch_size, ...).
LaunchSampler ==
    /\ pc = "launch"
    /\ launches < MaxLaunches
    /\ launches' = launches + 1
    /\ tpc' = [t \in GridThreads |-> "run"]
    /\ reads' = NoAccess
    /\ writes' = NoAccess
    /\ pc' = "sampler"
    /\ UNCHANGED <<i, meshVars, crs, generator, training_batch_raw,
                   training_target, materialVars>>
    /\ UNCHANGED notKernel

\* Lines 185-186 of a thread with idx >= n_elements.
SamplerReturn(idx) ==
    /\ pc = "sampler"
    /\ tpc[idx] = "run"
    /\ idx >= BatchSize
    /\ tpc' = [tpc EXCEPT ![idx] = "done"]
    /\ UNCHANGED <<pc, i, meshVars, crs, generator, launches,
                   training_batch_raw, training_target, reads, writes,
                   materialVars>>
    /\ UNCHANGED notKernel

\* Lines 183-214 of thread idx < n_elements: three draws from crs[idx], the
\* face id and the two weights written to result[3 * idx .. 3 * idx + 2].
generate_face_positions(idx) ==
    /\ pc = "sampler"
    /\ tpc[idx] = "run"
    /\ idx < BatchSize
    /\ LET faceId == SampledFace(curand_uniform(idx, 0), n_faces)
           r1 == curand_uniform(idx, 1)
           r2 == curand_uniform(idx, 2)
       IN  training_batch_raw' =
              [training_batch_raw EXCEPT
                  ![idx] = SurfacePoint(faceId, Barycentric(r1, r2))]
    /\ crs' = [crs EXCEPT ![idx].drawn = @ + 3]
    /\ reads' = [reads EXCEPT ![idx] = {<<"crs", idx>>}]
    /\ writes' = [writes EXCEPT
                    ![idx] = {<<"crs", idx>>} \cup
                             {<<"result", 3 * idx + k>> : k \in 0 .. 2}]
    /\ tpc' = [tpc EXCEPT ![idx] = "done"]
    /\ UNCHANGED <<pc, i, meshVars, generator, launches, training_target,
                   materialVars>>
    /\ UNCHANGED notKernel

\* The launch is over when every thread has returned.
SamplerDone ==
    /\ pc = "sampler"
    /\ \A t \in GridThreads : tpc[t] = "done"
    /\ pc' = "launch"
    /\ UNCHANGED <<i, meshVars, crs, kernelVars, materialVars>>
    /\ UNCHANGED notKernel

SamplerNext ==
    \/ LaunchSetupKernel
    \/ LaunchSampler
    \/ \E idx \in GridThreads : SamplerReturn(idx)
    \/ \E idx \in GridThreads : generate_face_positions(idx)
    \/ SamplerDone

InitSampler ==
    SamplerInit /\ LoopIdle /\ AdjIdle /\ CdfIdle /\ NoMaterials
SpecSampler == InitSampler /\ [][SamplerNext]_vars

\* ============================================ generate_training_target
\* A float of the Resolver is a tuple: a constant num / den, a component of
\* the diffuse colour of a material of the MTL file, a channel of a texel, or
\* the contents of memory outside every buffer.
Float(num, den) == <<"float", num, den, 0, 0>>
Kd(m, c) == <<"Kd", m, c, 0, 0>>
Garbage(c) == <<"garbage", 0, c, 0, 0>>
\* Channel ch of tex2D<float4>(texture, x, y), x and y in units of
\* 1 / FloatDen.
tex2D(texture, x, y, ch) == <<"tex2D", texture, x, y, ch>>

\* struct Texture and struct Material; a texture object is known by a number.
Texture(valid, texture) == [valid |-> valid, texture |-> texture]
Material(diffuse, map_Kd, map_Bump) ==
    [diffuse |-> diffuse, map_Kd |-> map_Kd, map_Bump |-> map_Bump]

\* Lines 697-703: materials_host[i] of the i-th material of the MTL file, its
\* diffuse texture loaded or not (kd), its bump texture loaded or not (bump).
LoadMaterial(m, kd, bump) ==
    Material(<<Kd(m, 0), Kd(m, 1), Kd(m, 2)>>,
             Texture(kd, IF kd THEN 2 * m + 1 ELSE 0),
             Texture(bump, IF bump THEN 2 * m + 2 ELSE 0))

\* The materials of the MTL files given to the Resolver: every combination of
\* a loaded and a missing texture.
MaterialTable ==
    [m \in 0 .. 3 |-> LoadMaterial(m, m % 2 = 1, (m \div 2) % 2 = 1)]

\* attrib.texcoords: the four corners of the texture.
TexcoordTable == [j \in 0 .. 3 |-> << j % 2, (j \div 2) % 2 >>]

\* mesh.indices of nf faces: face f has the texcoords f, f + 1, f + 2.
ResolverIndices(nf) ==
    [k \in 1 .. (3 * nf) |->
        [vertex_index |-> ((k - 1) \div 3) + ((k - 1) % 3),
         texcoord_index |-> (((k - 1) \div 3) + ((k - 1) % 3)) % 4]]

\* The Surface Points of a batch: the face ids 0 .. n_faces, two bit patterns
\* that are negative as an int, and every pair of weights on the grid.
NFacePatterns(nf) == nf + 3
FacePattern(p, nf) ==
    IF p <= nf THEN p
    ELSE IF p = nf + 1 THEN UintMod \div 2
    ELSE UINT_MAX
\* The weights 0, 1, 1/2, 1/4, ...
Weight(k) == IF k = 0 THEN 0 ELSE FloatDen \div (2 ^ (k - 1))
NSamples(nf) == NFacePatterns(nf) * ((NonZeroWeights + 1) * (NonZeroWeights + 1))
Sample(j, nf) ==
    LET p == j % NFacePatterns(nf)
        q == j \div NFacePatterns(nf)
    IN  SurfacePoint(FacePattern(p, nf),
                     << Weight(q \div (NonZeroWeights + 1)), Weight(q % (NonZeroWeights + 1)) >>)

\* GPUMatrix<float> training_target(N_OUTPUT_DIMS, batch_size): allocated,
\* not written.
Untargeted == [c \in 0 .. (N_OUTPUT_DIMS - 1) |-> <<"unwritten", 0, 0, 0, 0>>]

\* main at line 771, or trainAndEvaluate at line 400: the mesh and its
\* materials are on the device and the batch holds Surface Points.
ResolverInit ==
    /\ pc = "launch"
    /\ i = 0
    /\ n_vertices = 0
    /\ n_faces \in 0 .. MaxFaces
    /\ indices = ResolverIndices(n_faces)
    /\ texcoords = TexcoordTable
    /\ \E n_materials \in {0, Cardinality(DOMAIN MaterialTable)} :
         materials = [m \in 0 .. (n_materials - 1) |-> MaterialTable[m]]
    \* tinyobj: the material of a face, -1 for a face without material
    /\ material_ids \in
         [0 .. (n_faces - 1) ->
            {-1} \cup (DOMAIN materials)]
    /\ crs = [t \in Threads |-> "unallocated"]
    /\ tpc = [t \in GridThreads |-> "idle"]
    /\ launches = 0
    /\ generator = <<>>
    /\ \E k \in 0 .. (NSamples(n_faces) - 1) :
         training_batch_raw =
            [t \in Threads |-> Sample((k + t) % NSamples(n_faces), n_faces)]
    /\ training_target = [t \in Threads |-> Untargeted]
    /\ reads = NoAccess
    /\ writes = NoAccess

\* int faceId = *((uint32_t*) &training_batch[input_idx + 0]).
ToInt(bits) == IF bits >= UintMod \div 2 THEN bits - UintMod ELSE bits

\* Line 243: faceId < 0 || faceId >= n_faces, the second comparison between
\* an int and a uint32_t, that is, between two uint32_t.
OutOfRange(faceId, nf) == faceId < 0 \/ (faceId % UintMod) >= nf

\* Lines 244-246 alone: the first three channels set to 0.f.
ZeroDiffuse(result) ==
    [result EXCEPT ![0] = Float(0, 1), ![1] = Float(0, 1), ![2] = Float(0, 1)]
\* Lines 244-250: the six channels set to 0.f.
ZeroTarget(result) ==
    [result EXCEPT ![0] = Float(0, 1), ![1] = Float(0, 1), ![2] = Float(0, 1),
                   ![3] = Float(0, 1), ![4] = Float(0, 1), ![5] = Float(0, 1)]

\* Lines 254-256: the texcoord index of corner c of the face.
TexcoordIndex(faceId, c) == indices[3 * faceId + c + 1].texcoord_index

\* Lines 258-273: w1 * uv1 + w2 * uv2 + w3 * uv3 with w3 = 1 - w1 - w2, in
\* units of 1 / FloatDen.
Interpolate(faceId, p) ==
    LET uv1 == texcoords[TexcoordIndex(faceId, 0)]
        uv2 == texcoords[TexcoordIndex(faceId, 1)]
        uv3 == texcoords[TexcoordIndex(faceId, 2)]
        w3 == FloatDen - p.w1 - p.w2
    IN  << p.w1 * uv1[1] + p.w2 * uv2[1] + w3 * uv3[1],
           p.w1 * uv1[2] + p.w2 * uv2[2] + w3 * uv3[2] >>

\* materials[material_ids[faceId]]: the entry when the id is an index of the
\* table; otherwise the read is outside the buffer, and either faults or
\* yields whatever the memory holds.
ReadMaterial(id) ==
    IF id \in DOMAIN materials
    THEN {[fault |-> FALSE, material |-> materials[id]]}
    ELSE {[fault |-> TRUE,
           material |-> Material(<<Garbage(0), Garbage(1), Garbage(2)>>,
                                 Texture(FALSE, -1), Texture(FALSE, -1))]}
         \cup
         {[fault |-> FALSE,
           material |-> Material(<<Garbage(0), Garbage(1), Garbage(2)>>,
                                 Texture(kd, -1), Texture(bump, -1))] :
             kd \in BOOLEAN, bump \in BOOLEAN}

\* Lines 286-308: the six channels from the material and the texture
\* coordinate.
Shade(mat, uv, result) ==
    LET y == FloatDen - uv[2]
        diffuse(c) == IF mat.map_Kd.valid
                      THEN tex2D(mat.map_Kd.texture, uv[1], y, c)
                      ELSE mat.diffuse[c + 1]
        bump(c) == IF mat.map_Bump.valid
                   THEN tex2D(mat.map_Bump.texture, uv[1], y, c)
                   ELSE IF c = 2 THEN Float(1, 1) ELSE Float(1, 2)
    IN  [result EXCEPT ![0] = diffuse(0), ![1] = diffuse(1),
                       ![2] = diffuse(2),
                       ![3] = bump(0), ![4] = bump(1), ![5] = bump(2)]

\* The locations a thread reads for a sample of an in-range face.
MeshReads(idx, faceId, id) ==
    {<<"training_batch", N_INPUT_DIMS * idx + k>> : k \in 0 .. 2}
    \cup {<<"indices", 3 * faceId + c>> : c \in 0 .. 2}
    \cup {<<"texcoords", 2 * TexcoordIndex(faceId, c) + k>> :
            c \in 0 .. 2, k \in 0 .. 1}
    \cup {<<"material_ids", faceId>>, <<"materials", id>>}

\* The six channels at output_idx = idx * N_INPUT_DIMS.
ResultWritesAtInputIdx(idx) ==
    {<<"result", N_INPUT_DIMS * idx + c>> : c \in 0 .. (N_OUTPUT_DIMS - 1)}
\* The six channels at output_idx = idx * N_OUTPUT_DIMS (line 241).
ResultWrites(idx) ==
    {<<"result", N_OUTPUT_DIMS * idx + c>> : c \in 0 .. (N_OUTPUT_DIMS - 1)}

\* Line 400 or line 771: linear_kernel(generate_training_target, ...).
LaunchResolver ==
    /\ pc = "launch"
    /\ launches = 0
    /\ launches' = 1
    /\ tpc' = [t \in GridThreads |-> "run"]
    /\ pc' = "resolver"
    /\ UNCHANGED <<i, meshVars, crs, generator, training_batch_raw,
                   training_target, reads, writes, materialVars>>
    /\ UNCHANGED notKernel

\* Lines 239-240 of a thread with idx >= n_elements.
ResolverReturn(idx) ==
    /\ pc = "resolver"
    /\ tpc[idx] = "run"
    /\ idx >= BatchSize
    /\ tpc' = [tpc EXCEPT ![idx] = "done"]
    /\ UNCHANGED <<pc, i, meshVars, crs, generator, launches,
                   training_batch_raw, training_target, reads, writes,
                   materialVars>>
    /\ UNCHANGED notKernel

\* Lines 242-309 of thread idx < n_elements.
generate_training_target(idx) ==
    /\ pc = "resolver"
    /\ tpc[idx] = "run"
    /\ idx < BatchSize
    /\ LET faceId == ToInt(training_batch_raw[idx].face)
       IN  IF OutOfRange(faceId, n_faces)
           THEN /\ training_target' =
                     [training_target EXCEPT ![idx] = ZeroTarget(@)]
                /\ reads' = [reads EXCEPT
                               ![idx] = {<<"training_batch",
                                           N_INPUT_DIMS * idx>>}]
                /\ writes' = [writes EXCEPT ![idx] = ResultWrites(idx)]
                /\ tpc' = [tpc EXCEPT ![idx] = "done"]
           ELSE \E read \in ReadMaterial(material_ids[faceId]) :
                /\ reads' = [reads EXCEPT
                               ![idx] = MeshReads(idx, faceId,
                                                  material_ids[faceId])]
                /\ IF read.fault
                   THEN /\ tpc' = [tpc EXCEPT ![idx] = "fault"]
                        /\ UNCHANGED <<training_target, writes>>
                   ELSE /\ training_target' =
                             [training_target EXCEPT
                                ![idx] = Shade(read.material,
                                               Interpolate(faceId,
                                                   training_batch_raw[idx]),
                                               @)]
                        /\ writes' = [writes EXCEPT
                                        ![idx] = ResultWrites(idx)]
                        /\ tpc' = [tpc EXCEPT ![idx] = "done"]
    /\ UNCHANGED <<pc, i, meshVars, crs, generator, launches,
                   training_batch_raw, materialVars>>
    /\ UNCHANGED notKernel

\* The launch is over when every thread has returned or faulted.
ResolverDone ==
    /\ pc = "resolver"
    /\ \A t \in GridThreads : tpc[t] \in {"done", "fault"}
    /\ pc' = "resolved"
    /\ UNCHANGED <<i, meshVars, crs, kernelVars, materialVars>>
    /\ UNCHANGED notKernel

ResolverNext ==
    \/ LaunchResolver
    \/ \E idx \in GridThreads : ResolverReturn(idx)
    \/ \E idx \in GridThreads : generate_training_target(idx)
    \/ ResolverDone

InitResolver == ResolverInit /\ LoopIdle /\ AdjIdle /\ CdfIdle
SpecResolver == InitResolver /\ [][ResolverNext]_vars

\* ===================================================== a kernel launch
\* A launch of either kernel: of the Sampler with its generator states, or of
\* the Resolver over a batch of Surface Points.
SamplerRuns == generator # <<>>
KernelNext ==
    \/ SamplerRuns /\ SamplerNext
    \/ ~SamplerRuns /\ ResolverNext
InitKernels == InitSampler \/ InitResolver
SpecKernels == InitKernels /\ [][KernelNext]_vars

Init == TrainInit /\ NoMesh /\ AdjIdle /\ CdfIdle /\ KernelIdle /\ NoMaterials
Next == TrainNext
Spec == Init /\ [][Next]_vars

\* ------------------------------------------------- claims on the loop
InLoopBody == pc \in {"sample", "resolve", "train", "loss", "result",
                      "print", "visualize", "grow"}
AfterTrainingStep == pc \in {"loss", "result", "print", "visualize", "grow"}

ThreeLaunchesInOrder ==
    ops = << [op |-> "generate_face_positions", stream |-> training_stream],
             [op |-> "generate_training_target", stream |-> training_stream],
             [op |-> "training_step", stream |-> training_stream] >>

\* C1: for every training_iterations >= 0 the loop runs exactly
\* training_iterations + 1 iterations, and every iteration launches the
\* Sampler, then the Resolver, then training_step, on one stream, with
\* training_step called exactly once per iteration.
C1_LoopRunsIterationsPlusOne ==
    /\ pc = "done" => iterations = training_iterations + 1
    /\ AfterTrainingStep => ThreeLaunchesInOrder
    /\ pc = "loop" /\ iterations > 0 => ThreeLaunchesInOrder
    /\ InLoopBody => trained = iterations + (IF AfterTrainingStep THEN 1 ELSE 0)
    /\ pc \in {"loop", "done"} => trained = iterations

\* The same without the largest uint32_t: what the loop does below the wrap
\* of training_iterations + 1.
C1_BelowWrap ==
    training_iterations < UINT_MAX => C1_LoopRunsIterationsPlusOne

\* The steps up to k at which the claimed schedule prints: 0, 10, 100 and the
\* positive multiples of 1000.
PrintStepsUpTo(k) ==
    ({0, 10, 100} \cap (0 .. k)) \cup {1000 * j : j \in 1 .. (k \div 1000)}
\* The interval in force at a step, as a function of the step alone.
IntervalFor(step) ==
    IF step <= 10 THEN 10 ELSE IF step <= 100 THEN 100 ELSE 1000

\* C2: the interval is 10, 100 or 1000 in every state of the loop, and the
\* steps at which the loss has been printed are exactly 0, 10, 100 and the
\* positive multiples of 1000 among the steps run so far: a function of the
\* step index alone.
C2_PrintSchedule ==
    /\ interval \in {10, 100, 1000}
    /\ pc # "exit1" => interval = IntervalFor(i)
    /\ PrintStepsUpTo(i - 1) \subseteq printed
    /\ printed \subseteq PrintStepsUpTo(i)
    /\ pc \in {"visualize", "grow"} => printed = PrintStepsUpTo(i)
    /\ pc \in {"setup", "loop", "done"} => printed = PrintStepsUpTo(i - 1)

\* C2's case: a finished run that printed at 0, 10, 100, 1000 and 2000.
C2_Witness ==
    /\ pc = "done"
    /\ {0, 10, 100, 1000, 2000} \subseteq printed
    /\ interval = 1000

\* The loss was printed in this iteration and the print is the last thing done.
JustPrinted == pc = "visualize" /\ print_loss

\* The last `m` steps up to `step` (fewer at the start of the run).
LastSteps(step, m) == {s \in 0 .. step : s > step - m}

\* C3 as stated: every printed loss is the mean of the losses of the last
\* min(interval, 100) training steps.
C3_MeanOfLastSteps ==
    JustPrinted =>
        LET last == LastSteps(i, Min(interval, 100))
        IN  printed_loss = Quotient(last, Cardinality(last))

\* The last step before `step` at which the schedule printed, -1 if none.
PrevPrint(step) ==
    LET before == PrintStepsUpTo(step - 1)
    IN  IF before = {} THEN -1
        ELSE CHOOSE p \in before : \A q \in before : q <= p
\* The steps since the previous print whose loss is sampled: the multiples
\* of min(interval, 100) for the interval in force at the step.
SampledSince(step) ==
    {s \in (PrevPrint(step) + 1) .. step : s % Min(IntervalFor(s), 100) = 0}

\* C3, amended: every printed loss is the mean of the losses sampled since
\* the previous print, and a loss is sampled only at the steps that are
\* multiples of min(interval, 100); at least one loss is in every mean.
C3_MeanOfSampledSteps ==
    JustPrinted =>
        /\ printed_loss = Quotient(SampledSince(i),
                                   Cardinality(SampledSince(i)))
        /\ printed_loss.n >= 1
        /\ i % interval = 0

\* C3's case: the print at step 1000, the mean of the nine losses of steps
\* 200, 300, ..., 1000.
C3_Witness ==
    /\ JustPrinted
    /\ i = 1000
    /\ printed_loss = Quotient({200, 300, 400, 500, 600, 700, 800, 900, 1000}, 9)

\* C4: inference and the export of the channel images happen exactly once in
\* a run, in the iteration of step training_iterations and after its
\* training_step, and the run is Done only after them.
C4_EvaluatesOnceAtLastStep ==
    /\ Len(evaluated) <= 1
    /\ \A k \in 1 .. Len(evaluated) :
           /\ evaluated[k].step = training_iterations
           /\ evaluated[k].trained = training_iterations + 1
    /\ exported = (N_OUTPUT_DIMS \div 3) * Len(evaluated)
    /\ pc = "done" => Len(evaluated) = 1 /\ released

\* The same without the largest uint32_t.
C4_BelowWrap ==
    training_iterations < UINT_MAX => C4_EvaluatesOnceAtLastStep

\* ----------------------------------------------- claims on the adjacency
\* The loop over the faces has processed every face.
AllFacesProcessed ==
    pc \in {"serialize_faces", "serialize_edges", "adjacency_built"}

\* The vertices of a face, and the faces (in mesh order) that hold both a, b.
FaceVertices(face) ==
    {VertexIndex(face, 0), VertexIndex(face, 1), VertexIndex(face, 2)}
FacesWithEdge(a, b) ==
    {face \in 0 .. (n_faces - 1) : {a, b} \subseteq FaceVertices(face)}
IsEdge(a, b) == a # b /\ FacesWithEdge(a, b) # {}
\* The edge records of a vertex: its list cut in threes.
RecordsOf(v) ==
    {k \in 1 .. Len(adjEdges[v]) : k % 3 = 1 /\ k + 2 <= Len(adjEdges[v])}
\* The records of v whose other vertex is u.
RecordsFor(v, u) == {k \in RecordsOf(v) : adjEdges[v][k] = u}
Vertices == 0 .. (n_vertices - 1)
SingleTriangle == n_vertices = 3 /\ n_faces = 1

AtMostTwoFacesPerEdge ==
    \A a \in Vertices : \A b \in Vertices :
        Cardinality(FacesWithEdge(a, b)) <= 2 \/ a = b
\* The faces have three distinct vertices.
FacesNotDegenerate ==
    \A face \in 0 .. (n_faces - 1) : Cardinality(FaceVertices(face)) = 3
\* The k-th face (k = 1, 2) that holds the edge, in mesh order.
FirstFace(a, b) ==
    CHOOSE face \in FacesWithEdge(a, b) :
        \A g \in FacesWithEdge(a, b) : face <= g
SecondFace(a, b) ==
    CHOOSE face \in FacesWithEdge(a, b) \ {FirstFace(a, b)} :
        \A g \in FacesWithEdge(a, b) \ {FirstFace(a, b)} : face <= g

\* C6: in a mesh of non-degenerate faces whose edges belong to at most two
\* faces there is exactly one stored record per undirected edge, whatever
\* the order of its endpoints in the faces; its first face slot is
\* n_vertices + the first face of the edge, its second slot n_vertices + the
\* second face when there is one and the sentinel exactly when there is
\* none; every edge list has a length that is a multiple of 3.
C6_OneRecordPerEdge ==
    AllFacesProcessed /\ FacesNotDegenerate /\ AtMostTwoFacesPerEdge =>
        /\ \A v \in Vertices : Len(adjEdges[v]) % 3 = 0
        /\ \A a \in Vertices : \A b \in Vertices :
               (a < b /\ IsEdge(a, b)) =>
                   /\ Cardinality(RecordsFor(a, b)) = 1
                   /\ Cardinality(RecordsFor(b, a)) = 0
                   /\ \A k \in RecordsFor(a, b) :
                          /\ adjEdges[a][k + 1] = n_vertices + FirstFace(a, b)
                          /\ adjEdges[a][k + 2] =
                                 IF Cardinality(FacesWithEdge(a, b)) = 2
                                 THEN n_vertices + SecondFace(a, b)
                                 ELSE UINT_MAX
        /\ \A a \in Vertices : \A b \in Vertices :
               ~IsEdge(a, b) => RecordsFor(a, b) = {}

\* C6's case: two triangles over four vertices that share the edge {1, 2},
\* which the first face holds as (1, 2) and the second as (2, 1).
C6_Witness ==
    /\ pc = "adjacency_built"
    /\ n_vertices = 4
    /\ n_faces = 2
    /\ <<VertexIndex(0, 0), VertexIndex(0, 1), VertexIndex(0, 2)>> = <<0, 1, 2>>
    /\ <<VertexIndex(1, 0), VertexIndex(1, 1), VertexIndex(1, 2)>> = <<2, 1, 3>>
    /\ adjEdges[1] = <<2, 4, 5, 3, 5, UINT_MAX>>

\* ------------------------------------------------------ claims on the CDF
\* The histogram is complete and the mesh has faces, all of them degenerate.
ZeroTotalArea ==
    /\ pc \in {"cdf", "test_input", "train", "exit"}
    /\ histogram # <<>>
    /\ \A k \in 1 .. Len(histogram) : histogram[k] = 0
    /\ area_sum = 0
    /\ n_faces > 0

\* C10: over a mesh whose total face area is 0 the CDF construction is a
\* fatal configuration error: no CDF is uploaded, no training is started and
\* the process does not end with status 0.
C10_ZeroAreaIsFatal ==
    ZeroTotalArea =>
        /\ cdf = Unallocated
        /\ ~train_started
        /\ exit_code # "0"

\* What the code does instead: every entry of the uploaded CDF is NaN.
C10_ZeroAreaUploadsNaN ==
    (ZeroTotalArea /\ cdf.allocated) =>
        \A k \in 1 .. n_faces : cdf.data[k] = NaN

\* The CDF of a mesh of positive area is non-decreasing and ends at 1.
CdfOfPositiveArea ==
    (cdf.allocated /\ area_sum > 0) =>
        /\ cdf.data[n_faces] = Rational(1, 1)
        /\ \A k \in 1 .. (n_faces - 1) :
               cdf.data[k].num * cdf.data[k + 1].den
                   <= cdf.data[k + 1].num * cdf.data[k].den

\* ------------------------------------------------ claims on the Sampler
\* Thread t has written its Surface Point in this or in an earlier launch.
PointWritten(t) == pc # "seed" /\ crs[t].drawn > 0
\* The float nearest to w1 + w2.
FloatSum(p) == RoundToFloat(p.w1 + p.w2, 1)

\* C9 as stated: every Surface Point written by generate_face_positions, in
\* every iteration and for every thread, has w1 >= 0, w2 >= 0 and
\* w1 + w2 <= 1 with w1 = 1 - sqrt(r1) and w2 = sqrt(r1) * (1 - r2) for the
\* drawn r1 and r2, and its face id is in [0, n_faces).
C9_PointOnAFace ==
    \A t \in Threads :
        PointWritten(t) =>
            LET p == training_batch_raw[t]
                r1 == generator[t][crs[t].drawn - 2]
                r2 == generator[t][crs[t].drawn - 1]
            IN  /\ p.w1 = OneMinus(sqrt(r1))
                /\ p.w2 = Times(sqrt(r1), OneMinus(r2))
                /\ p.w1 >= 0
                /\ p.w2 >= 0
                /\ p.w1 + p.w2 <= FloatDen
                /\ p.face \in 0 .. (n_faces - 1)

\* What the Sampler does keep: no weight is negative, the sum of the weights
\* is at most 1 when it is computed as a float, and the face id is a face of
\* the mesh when the mesh has one.
C9_RoundedSum ==
    \A t \in Threads :
        PointWritten(t) =>
            LET p == training_batch_raw[t]
            IN  /\ p.w1 >= 0
                /\ p.w2 >= 0
                /\ FloatSum(p) <= FloatDen
                /\ n_faces >= 1 => p.face \in 0 .. (n_faces - 1)

\* A Surface Point on a face of the mesh whose weights sum to more than 1:
\* 1.0f - sqrt(r1) is rounded up and 1.0f - r2 is rounded to 1.
C9_SumAboveOne ==
    \E t \in Threads :
        /\ PointWritten(t)
        /\ n_faces >= 1
        /\ training_batch_raw[t].w1 + training_batch_raw[t].w2 > FloatDen

\* A mesh without a face: the face id written, 0, is not below n_faces.
C9_NoFace ==
    \E t \in Threads :
        PointWritten(t) /\ n_faces = 0 /\ training_batch_raw[t].face = 0

\* The endpoint 1.0 of the generator: the face is 0 and both weights are 0.
C9_Endpoint ==
    \E t \in Threads :
        /\ PointWritten(t)
        /\ launches = MaxLaunches
        /\ n_faces = MaxFaces
        /\ \A k \in 1 .. 3 : generator[t][crs[t].drawn - k] = FloatDen
        /\ training_batch_raw[t] = SurfacePoint(0, <<0, 0>>)

\* ----------------------------------------------- claims on the Resolver
\* Thread t of the launch has returned or faulted.
Resolved(t) == pc \in {"resolver", "resolved"} /\ tpc[t] \in {"done", "fault"}
\* The face id of the sample of thread t, as the unsigned number stored.
InsideMesh(t) == training_batch_raw[t].face \in 0 .. (n_faces - 1)
AllZero == [c \in 0 .. (N_OUTPUT_DIMS - 1) |-> Float(0, 1)]

\* C7: for every sample whose face id is outside [0, n_faces), n_faces itself
\* and the patterns that are negative as an int included, the Resolver writes
\* 0 to all six channels of the sample, reads no mesh index, texcoord or
\* material entry for it, and raises no error.
C7_OutOfRangeIsZero ==
    \A t \in Threads :
        (Resolved(t) /\ ~InsideMesh(t)) =>
            /\ training_target[t] = AllZero
            /\ writes[t] = ResultWrites(t)
            /\ \A r \in reads[t] : r[1] = "training_batch"
            /\ tpc[t] = "done"

\* One thread has resolved the face id n_faces, another a negative one.
C7_Witness ==
    /\ n_faces = MaxFaces
    /\ \E t, u \in Threads :
        /\ Resolved(t) /\ Resolved(u)
        /\ training_batch_raw[t].face = n_faces
        /\ training_batch_raw[u].face >= UintMod \div 2
        /\ training_target[t] = AllZero
        /\ training_target[u] = AllZero

\* (u, v) = w1 * uv1 + w2 * uv2 + (1 - w1 - w2) * uv3 over the texcoords of
\* the face of thread t, in units of 1 / FloatDen.
ClaimedUV(t) ==
    LET p == training_batch_raw[t]
        uv(c) == texcoords[indices[3 * p.face + c].texcoord_index]
    IN  [k \in 1 .. 2 |->
            p.w1 * uv(1)[k] + p.w2 * uv(2)[k]
                + (FloatDen - p.w1 - p.w2) * uv(3)[k]]
ClaimedChannels(t, mat) ==
    LET u == ClaimedUV(t)[1]
        v == ClaimedUV(t)[2]
    IN  /\ mat.map_Kd.valid =>
              \A c \in 0 .. 2 :
                  training_target[t][c] =
                      tex2D(mat.map_Kd.texture, u, FloatDen - v, c)
        /\ ~mat.map_Kd.valid =>
              \A c \in 0 .. 2 : training_target[t][c] = mat.diffuse[c + 1]
        /\ mat.map_Bump.valid =>
              \A c \in 0 .. 2 :
                  training_target[t][3 + c] =
                      tex2D(mat.map_Bump.texture, u, FloatDen - v, c)
        /\ ~mat.map_Bump.valid =>
              /\ training_target[t][3] = Float(1, 2)
              /\ training_target[t][4] = Float(1, 2)
              /\ training_target[t][5] = Float(1, 1)

\* C8: for every sample with an in-range face id the channels 0..2 are the
\* diffuse colour of the material of the face when map_Kd.valid is false and
\* the map_Kd texture at (u, 1 - v) when it is true, and the channels 3..5
\* are (0.5, 0.5, 1.0) when map_Bump.valid is false and the map_Bump texture
\* at (u, 1 - v) when it is true.
C8_ChannelGroups ==
    \A t \in Threads :
        (Resolved(t) /\ InsideMesh(t)) =>
            LET id == material_ids[training_batch_raw[t].face]
            IN  /\ id \in DOMAIN materials
                /\ tpc[t] = "done"
                /\ ClaimedChannels(t, materials[id])

\* The same for the faces that have a material.
C8_FacesWithMaterial ==
    \A t \in Threads :
        (Resolved(t) /\ InsideMesh(t)) =>
            LET id == material_ids[training_batch_raw[t].face]
            IN  id \in DOMAIN materials =>
                    /\ tpc[t] = "done"
                    /\ ClaimedChannels(t, materials[id])

\* A face without material: the thread faults, or writes what the memory
\* before the Material table holds.
C8_NoMaterial ==
    \E t \in Threads :
        /\ Resolved(t) /\ InsideMesh(t)
        /\ material_ids[training_batch_raw[t].face] = -1

\* Two threads have resolved faces whose materials are one with both
\* textures and one with none, at weights with w1 > 0 and w2 > 0.
C8_Textured ==
    \E t, u \in Threads :
        /\ Resolved(t) /\ InsideMesh(t)
        /\ Resolved(u) /\ InsideMesh(u)
        /\ material_ids[training_batch_raw[t].face] = 3
        /\ material_ids[training_batch_raw[u].face] = 0
        /\ training_batch_raw[t].w1 > 0
        /\ training_batch_raw[t].w2 > 0
        /\ training_target[t][0][1] = "tex2D"
        /\ training_target[t][3][1] = "tex2D"
        /\ training_target[u][0][1] = "Kd"

\* ------------------------------------------------ claims on the launches
\* The Surface Point thread t writes in iteration k >= 1: a function of the
\* draws 3k - 3, 3k - 2, 3k - 1 of its sequence.
PointOf(t, k) ==
    SurfacePoint(SampledFace(generator[t][3 * k - 3], n_faces),
                 Barycentric(generator[t][3 * k - 2], generator[t][3 * k - 1]))
\* The slot of thread t after k iterations.
SlotAfter(t, k) == IF k = 0 THEN Unwritten ELSE PointOf(t, k)
\* The iterations thread t has run.
IterationsOf(t) ==
    IF pc = "sampler" /\ tpc[t] = "run" THEN launches - 1 ELSE launches

OwnSamplerLocations(t) ==
    {<<"crs", t>>, <<"result", 3 * t>>, <<"result", 3 * t + 1>>,
     <<"result", 3 * t + 2>>}
OwnResolverLocations(t) == {<<"result", k>> : k \in (6 * t) .. (6 * t + 5)}

C11_SamplerMidLaunch ==
    /\ pc = "sampler"
    /\ launches = MaxLaunches
    /\ \E t \in Threads, u \in Threads :
        /\ tpc[t] = "done" /\ tpc[u] = "run"
        /\ writes[t] = OwnSamplerLocations(t)
        /\ training_batch_raw[u] = PointOf(u, launches - 1)

\* ------------------------------------------- claims on the serialization
\* The faces incident to a vertex.
IncidentFaces(v) == {face \in 0 .. (n_faces - 1) : v \in FaceVertices(face)}
\* meta[k] and offsets[k], counted from 0 as in the program.
Meta(k) == meta_host[k + 1]
Offset(k) == offsets_host[k + 1]
\* The segments are contiguous from 0 in the order of offsets, each a length
\* and that many entries, and end where meta ends.
SegmentsCoverMeta ==
    /\ Len(offsets_host) = 2 * n_vertices
    /\ Offset(0) = 0
    /\ \A k \in 0 .. (2 * n_vertices - 2) :
           Offset(k + 1) = Offset(k) + 1 + Meta(Offset(k))
    /\ Offset(2 * n_vertices - 1) + 1 + Meta(Offset(2 * n_vertices - 1))
           = Len(meta_host)
\* The edge segment of every vertex is its edge list behind its length.
EdgeSegments ==
    \A v \in Vertices :
        /\ Meta(Offset(n_vertices + v)) = Len(adjEdges[v])
        /\ \A k \in 1 .. Len(adjEdges[v]) :
               Meta(Offset(n_vertices + v) + k) = adjEdges[v][k]

\* C12: for every mesh offsets has 2 * n_vertices entries; meta[offsets[v]]
\* is the number of faces incident to v and is followed by exactly those
\* face ids in ascending order; meta[offsets[n_vertices + v]] is the length
\* of the edge segment of v and is followed by that many entries; the face
\* segments precede the edge segments, and the segments are contiguous in
\* vertex order and cover meta exactly.
C12_WellFormed ==
    pc = "adjacency_built" =>
        /\ SegmentsCoverMeta
        /\ EdgeSegments
        /\ \A v \in Vertices :
               /\ Meta(Offset(v)) = Cardinality(IncidentFaces(v))
               /\ \A k \in 1 .. Meta(Offset(v)) :
                      Meta(Offset(v) + k) \in IncidentFaces(v)
               /\ \A k \in 1 .. (Meta(Offset(v)) - 1) :
                      Meta(Offset(v) + k) < Meta(Offset(v) + k + 1)

\* The same for the meshes whose faces have three distinct vertices.
C12_DistinctVertices ==
    FacesNotDegenerate => C12_WellFormed

\* What holds for every mesh: the layout, and a face segment that holds the
\* id of a face once for every corner the face has at the vertex.
C12_Layout ==
    pc = "adjacency_built" =>
        /\ SegmentsCoverMeta
        /\ EdgeSegments
        /\ \A v \in Vertices :
               /\ Meta(Offset(v)) = Len(adjFaces[v])
               /\ \A k \in 1 .. Meta(Offset(v)) :
                      Meta(Offset(v) + k) \in IncidentFaces(v)
               /\ \A k \in 1 .. (Meta(Offset(v)) - 1) :
                      Meta(Offset(v) + k) <= Meta(Offset(v) + k + 1)
               /\ \A face \in IncidentFaces(v) :
                      Cardinality({k \in 1 .. Meta(Offset(v)) :
                                      Meta(Offset(v) + k) = face})
                      = Cardinality({c \in 0 .. 2 : VertexIndex(face, c) = v})

\* A face that names vertex 0 twice: its id is twice in the segment of 0.
C12_FaceListedTwice ==
    /\ pc = "adjacency_built"
    /\ n_faces = 1
    /\ <<VertexIndex(0, 0), VertexIndex(0, 1), VertexIndex(0, 2)>> = <<0, 0, 1>>
    /\ Meta(Offset(0)) = 2
    /\ Meta(1) = 0 /\ Meta(2) = 0

\* Two triangles over four vertices, serialized.
C12_TwoTriangles ==
    /\ pc = "adjacency_built"
    /\ n_vertices = 4
    /\ n_faces = 2
    /\ FacesNotDegenerate
    /\ Len(meta_host) = 2 * 4 + 6 + 15

\* ------------------------------------------------ claims on the generator
\* The state curand_init(1337, t, 0, .) leaves, n draws later.
SeededState(t, n) == [seed |-> 1337, stream |-> t, offset |-> 0, drawn |-> n]
\* The positions, in the sequence of a thread, of the draws of its iteration
\* k = 0, 1, ...
DrawsOfIteration(k) == {3 * k, 3 * k + 1, 3 * k + 2}

\* C13: the generator states are initialised once, before the first launch
\* of the Sampler, with seed 1337, stream = thread index and offset 0, and
\* never again; a thread that has run k iterations is exactly 3 * k draws
\* after that state, so its iteration k (from 0) has used the draws 3k, 3k+1
\* and 3k+2 of its sequence and no draw serves two iterations; and the Surface
\* Point in its slot is the function of those draws, of the number of faces
\* and of the iteration count, the same in every run.
C13_ThreeDrawsPerIteration ==
    /\ pc = "seed" =>
          /\ launches = 0
          /\ \A t \in Threads :
                 crs[t] = "unallocated" /\ training_batch_raw[t] = Unwritten
    /\ pc # "seed" =>
          \A t \in Threads :
              LET k == IterationsOf(t)
              IN  /\ crs[t] = SeededState(t, 3 * k)
                  /\ \A a \in 0 .. (k - 1), b \in 0 .. (k - 1) :
                         a # b =>
                             DrawsOfIteration(a) \cap DrawsOfIteration(b) = {}
                  /\ k > 0 =>
                         /\ DrawsOfIteration(k - 1) =
                                (crs[t].drawn - 3) .. (crs[t].drawn - 1)
                         /\ training_batch_raw[t] =
                                SurfacePoint(
                                    SampledFace(generator[t][3 * (k - 1)],
                                                n_faces),
                                    Barycentric(
                                        generator[t][3 * (k - 1) + 1],
                                        generator[t][3 * (k - 1) + 2]))

\* Every thread has run two iterations, and the second one has drawn a
\* Surface Point the first three draws do not give.
C13_SecondSegment ==
    /\ pc = "launch"
    /\ launches >= 2
    /\ n_faces > 0
    /\ \A t \in Threads : crs[t] = SeededState(t, 3 * launches)
    /\ \E t \in Threads :
          training_batch_raw[t] #
              SurfacePoint(SampledFace(generator[t][0], n_faces),
                           Barycentric(generator[t][1], generator[t][2]))

\* ------------------------------------------------ claims on the divisions
\* The loop is about to compute res.MSE (line 419), or to print the loss
\* (line 425): the two divisions by tmp_loss_counter.
DividesForResult == pc = "result" /\ writeEvalResult
DividesForPrint == pc = "print" /\ print_loss

\* C14: for every training_iterations, at every division of the accumulated
\* loss by tmp_loss_counter, at a print of the loss and at the last step for
\* res.MSE, the counter is at least 1.
C14_CounterAtLeastOne ==
    (DividesForResult \/ DividesForPrint) => tmp_loss_counter >= 1

\* The division of every print is by the number of losses sampled since the
\* previous print, which is at least 1: a step that prints has sampled.
C14_PrintDividesByPositive ==
    DividesForPrint =>
        /\ tmp_loss_counter = Cardinality(SampledSince(i))
        /\ tmp_loss_counter >= 1

\* The division for res.MSE is by the number of losses sampled since the
\* previous print, which is 0 when no step since then was sampled.
C14_ResultDividesBySampled ==
    DividesForResult =>
        /\ tmp_loss_counter = Cardinality(SampledSince(i))
        /\ tmp_loss = SampledSince(i)

\* The last step of a run of 12 iterations: the print at step 10 has emptied
\* the accumulator and neither step 11 nor step 12 is sampled.
C14_EmptyWindow ==
    /\ DividesForResult
    /\ training_iterations = 12
    /\ i = 12
    /\ tmp_loss_counter = 0
    /\ tmp_loss = {}

\* ------------------------------------------- claims on the Material table
\* int n_materials = mats.size() (line 692): the length of the table.
n_materials == Cardinality(DOMAIN materials)
\* The indices at which thread t has read the Material table.
MaterialReads(t) == {loc[2] : loc \in {r \in reads[t] : r[1] = "materials"}}

\* C15: for every sample with an in-range face id the Resolver reads the
\* Material table only at an index in [0, n_materials); a face whose
\* material id is the negative 'no material' id causes no read outside the
\* table.
C15_ReadsInsideTable ==
    \A t \in Threads :
        (Resolved(t) /\ InsideMesh(t)) =>
            MaterialReads(t) \subseteq 0 .. (n_materials - 1)

\* What the kernel reads: the table at the face's material id, whatever the
\* id is, and outside the table exactly for a face without material.
C15_ReadsAtMaterialId ==
    \A t \in Threads :
        (Resolved(t) /\ InsideMesh(t)) =>
            /\ MaterialReads(t) = {material_ids[training_batch_raw[t].face]}
            /\ MaterialReads(t) \subseteq ({-1} \cup 0 .. (n_materials - 1))

\* The sample of a thread is on a face without material and the thread has
\* read materials[-1].
C15_ReadBeforeTable ==
    \E t \in Threads :
        /\ Resolved(t) /\ InsideMesh(t)
        /\ material_ids[training_batch_raw[t].face] = -1
        /\ -1 \in MaterialReads(t)

====
